---- MODULE Spec2Model ----
(***************************************************************************)
(* Model of marching_cubes_gen.py: the generator that derives the 256      *)
(* marching-cubes cases from 15 base cases, 4 inverse cases and the        *)
(* symmetry operations of the cube.                                        *)
(*                                                                         *)
(* Python lists that are indexed from 0 (VERTICES, EDGES, permutations)    *)
(* are functions on 0..n-1; triangles, triangle lists and the items of     *)
(* BASE_CASES are sequences.                                               *)
(***************************************************************************)
EXTENDS Integers, Sequences, FiniteSets, TLC

VARIABLES
    pc,          \* position of the script: "closure", "test1", "test2", "emit", "done",
                 \* or the exception that ended it: "KeyError", "AssertionError", "ValueError"
    invert,      \* loop variable of line 195
    r1,          \* loop variable of line 196
    r2,          \* loop variable of line 197
    r3,          \* loop variable of line 198
    refl,        \* loop variable of line 199
    bi,          \* position of the innermost loop (line 208) in BASE_CASES.items()
    order,       \* the order in which BASE_CASES.items() yields the items
    cases,       \* the dict cases (line 190): bit-pattern -> list of faces
    derivation,  \* history: for every key of cases, the operation and base key that inserted it
    output,      \* what line 260 prints
    perm1,       \* algebra specification: first permutation
    perm2,       \* algebra specification: second permutation
    applied      \* algebra specification: results of applying the permutations

vars == <<pc, invert, r1, r2, r3, refl, bi, order, cases, derivation, output,
          perm1, perm2, applied>>

(* A Python list literal, indexed from 0. *)
List(s) == [i \in 0..(Len(s) - 1) |-> s[i + 1]]

Corners == 0..7
EdgeIds == 0..11
Patterns == 0..255

VERTICES ==
    List(<< <<0, 0, 0>>, <<1, 0, 0>>, <<1, 1, 0>>, <<0, 1, 0>>,
            <<0, 0, 1>>, <<1, 0, 1>>, <<1, 1, 1>>, <<0, 1, 1>> >>)

EDGES ==
    List(<< <<0, 1>>, <<1, 2>>, <<2, 3>>, <<3, 0>>,
            <<4, 5>>, <<5, 6>>, <<6, 7>>, <<7, 4>>,
            <<0, 4>>, <<1, 5>>, <<2, 6>>, <<3, 7>> >>)

(* frozenset([v1, v2]) of edge e *)
VertSet(e) == {EDGES[e][1], EDGES[e][2]}

(* The dict built by lines 32-34: a later edge with the same vertex set overwrites. *)
EDGES_BY_VERTSET ==
    [vs \in {VertSet(e) : e \in DOMAIN EDGES} |->
        CHOOSE e \in DOMAIN EDGES :
            /\ VertSet(e) = vs
            /\ \A e2 \in DOMAIN EDGES : VertSet(e2) = vs => e2 <= e]

(* The dict literal of lines 41-61, as its items in insertion order. *)
BASE_CASES_LITERAL ==
    << <<0,   << >> >>,
       <<1,   << <<8, 0, 3>> >> >>,
       <<3,   << <<8, 1, 3>>, <<8, 9, 1>> >> >>,
       <<5,   << <<8, 0, 3>>, <<1, 10, 2>> >> >>,
       <<65,  << <<8, 0, 3>>, <<10, 6, 5>> >> >>,
       <<50,  << <<8, 7, 0>>, <<0, 7, 1>>, <<1, 7, 5>> >> >>,
       <<67,  << <<8, 1, 3>>, <<8, 9, 1>>, <<10, 6, 5>> >> >>,
       <<74,  << <<3, 2, 11>>, <<0, 9, 1>>, <<10, 6, 5>> >> >>,
       <<51,  << <<7, 5, 3>>, <<3, 5, 1>> >> >>,
       <<177, << <<11, 6, 3>>, <<3, 6, 0>>, <<0, 6, 5>>, <<0, 5, 9>> >> >>,
       <<105, << <<11, 8, 2>>, <<8, 2, 0>>, <<6, 10, 4>>, <<4, 10, 9>> >> >>,
       <<113, << <<3, 7, 0>>, <<0, 7, 10>>, <<7, 6, 10>>, <<0, 10, 9>> >> >>,
       <<58,  << <<3, 2, 11>>, <<8, 7, 0>>, <<0, 7, 1>>, <<1, 7, 5>> >> >>,
       <<165, << <<8, 0, 3>>, <<4, 5, 9>>, <<10, 2, 1>>, <<11, 6, 7>> >> >>,
       <<178, << <<8, 11, 0>>, <<0, 11, 5>>, <<5, 11, 6>>, <<0, 5, 1>> >> >> >>

(* The dict literal of lines 78-87, as its items in insertion order. *)
INVERSE_CASES ==
    << <<255 - 5,  << <<3, 2, 8>>, <<8, 2, 10>>, <<8, 10, 1>>, <<8, 1, 0>> >> >>,
       <<255 - 67, << <<6, 8, 3>>, <<6, 9, 8>>, <<6, 5, 9>>, <<6, 3, 1>>, <<6, 10, 1>> >> >>,
       <<255 - 74, << <<3, 11, 0>>, <<0, 11, 6>>, <<0, 6, 9>>, <<9, 6, 5>>, <<1, 10, 2>> >> >>,
       <<255 - 58, << <<8, 0, 3>>, <<2, 7, 11>>, <<7, 2, 1>>, <<7, 1, 5>> >> >> >>

(* d[k] = v on a dict given as its items: an existing key keeps its place. *)
DictSet(items, k, v) ==
    IF \E i \in 1..Len(items) : items[i][1] = k
    THEN [i \in 1..Len(items) |-> IF items[i][1] = k THEN <<k, v>> ELSE items[i]]
    ELSE Append(items, <<k, v>>)

RECURSIVE DictUpdate(_, _)
DictUpdate(items, more) ==
    IF more = << >> THEN items
    ELSE DictUpdate(DictSet(items, Head(more)[1], Head(more)[2]), Tail(more))

(* BASE_CASES after lines 90-91 have added INVERSE_CASES to it. *)
BASE_CASES == DictUpdate(BASE_CASES_LITERAL, INVERSE_CASES)

BaseKeys == {BASE_CASES[i][1] : i \in 1..Len(BASE_CASES)}
BaseFaces(bits) == BASE_CASES[CHOOSE i \in 1..Len(BASE_CASES) : BASE_CASES[i][1] = bits][2]

(* ROTATE_1 mistyped with corner 7 twice: no longer a bijection. *)
ROTATE_1_dup == List(<<1, 2, 3, 0, 5, 6, 7, 7>>)

(* ROTATE_3 mistyped with its last two images swapped: a bijection that maps *)
(* edge (5, 6) to the pair (4, 3), which is no edge.                          *)
ROTATE_3_typo == List(<<1, 5, 6, 2, 0, 4, 3, 7>>)

ROTATE_1 == List(<<1, 2, 3, 0, 5, 6, 7, 4>>)
ROTATE_2 == List(<<3, 2, 6, 7, 0, 1, 5, 4>>)
ROTATE_3 == List(<<1, 5, 6, 2, 0, 4, 7, 3>>)
REFLECT  == List(<<1, 0, 3, 2, 5, 4, 7, 6>>)

(* [v for v in range(8) if 2**v & n > 0] *)
bits_to_verts(n) ==
    SelectSeq(<<0, 1, 2, 3, 4, 5, 6, 7>>, LAMBDA v : (n \div (2 ^ v)) % 2 = 1)

RECURSIVE verts_to_bits(_)
verts_to_bits(vs) ==
    IF vs = << >> THEN 0 ELSE (2 ^ Head(vs)) + verts_to_bits(Tail(vs))

bits_apply(op, n) ==
    LET verts == bits_to_verts(n)
    IN  verts_to_bits([i \in 1..Len(verts) |-> op[verts[i]]])

(* frozenset(op[v] for v in EDGES[edge]) *)
EdgeImage(op, edge) == {op[EDGES[edge][1]], op[EDGES[edge][2]]}

(* The lookup of line 169 raises KeyError exactly when this is false. *)
EdgeFound(op, edge) == EdgeImage(op, edge) \in DOMAIN EDGES_BY_VERTSET

edge_apply(op, edge) == EDGES_BY_VERTSET[EdgeImage(op, edge)]

(* face_apply that forgets to map the edges through the permutation. *)
face_apply_unmapped(op, face, flip) ==
    IF flip THEN [i \in 1..Len(face) |-> face[Len(face) + 1 - i]] ELSE face

(* list(reversed(edges)) *)
Reversed(s) == [i \in 1..Len(s) |-> s[Len(s) + 1 - i]]

face_apply(op, face, flip) ==
    LET edges == [i \in 1..Len(face) |-> edge_apply(op, face[i])]
    IN  IF flip THEN Reversed(edges) ELSE edges

(* faces_apply that stops one face short. *)
faces_apply_dropLast(op, faces, flip) ==
    [i \in 1..(Len(faces) - 1) |-> face_apply(op, faces[i], flip)]

faces_apply(op, faces, flip) ==
    [i \in 1..Len(faces) |-> face_apply(op, faces[i], flip)]

(* faces_apply(op, faces, flip) raises KeyError *)
FacesRaise(op, faces) ==
    \E i \in 1..Len(faces) : \E j \in 1..Len(faces[i]) : ~EdgeFound(op, faces[i][j])

(* compose that composes a pair right-to-left. *)
RECURSIVE compose_swapped(_)
compose_swapped(ops) ==
    IF Len(ops) = 0 THEN List(<<0, 1, 2, 3, 4, 5, 6, 7>>)
    ELSE IF Len(ops) = 1 THEN ops[1]
    ELSE IF Len(ops) = 2 THEN [v \in Corners |-> ops[1][ops[2][v]]]
    ELSE compose_swapped(<<ops[1], compose_swapped(Tail(ops))>>)

RECURSIVE compose(_)
compose(ops) ==
    IF Len(ops) = 0 THEN List(<<0, 1, 2, 3, 4, 5, 6, 7>>)
    ELSE IF Len(ops) = 1 THEN ops[1]
    ELSE IF Len(ops) = 2 THEN [v \in Corners |-> ops[2][ops[1][v]]]
    ELSE compose(<<ops[1], compose(Tail(ops))>>)

pow(op, n) == compose([i \in 1..n |-> op])

(* The permutation of lines 200-205. *)
Operation(a, b, c, d) ==
    compose(<<pow(ROTATE_1, a), pow(ROTATE_2, b), pow(ROTATE_3, c), pow(REFLECT, d)>>)

(* flip computed with `or` in place of `^`. *)
Flip_or(inv, d) == inv \/ (d = 1)

(* flip of line 207 *)
Flip(inv, d) == inv # (d = 1)

(* new_bits of lines 209-211 *)
NewBits(op, inv, bits) ==
    LET new_bits == bits_apply(op, bits)
    IN  IF inv THEN 255 - new_bits ELSE new_bits

(* The loop of line 195 without the inverting pass. *)
InvertValues_noInvert == <<FALSE>>

(* The loop of line 195 with the inverting pass first. *)
InvertValues_swapped == <<TRUE, FALSE>>

(* The values of `for invert in (False, True)`, line 195, in order. *)
InvertValues == <<FALSE, TRUE>>

InvertIndex(inv) == CHOOSE i \in 1..Len(InvertValues) : InvertValues[i] = inv

(* The first iteration of the nested loops of lines 195-199. *)
LoopFirst == [invert |-> InvertValues[1], r1 |-> 0, r2 |-> 0, r3 |-> 0, refl |-> 0]

(* The last iteration of the nested loops of lines 195-199. *)
LoopLast(s) ==
    /\ s.invert = InvertValues[Len(InvertValues)]
    /\ s.r1 = 3 /\ s.r2 = 3 /\ s.r3 = 3 /\ s.refl = 1

(* The nested loops with `for invert` innermost instead of outermost. *)
LoopNext_invertInner(s) ==
    IF s.invert = FALSE THEN [s EXCEPT !.invert = TRUE]
    ELSE IF s.refl < 1 THEN [s EXCEPT !.invert = FALSE, !.refl = s.refl + 1]
    ELSE IF s.r3 < 3 THEN [s EXCEPT !.invert = FALSE, !.r3 = s.r3 + 1, !.refl = 0]
    ELSE IF s.r2 < 3 THEN [s EXCEPT !.invert = FALSE, !.r2 = s.r2 + 1, !.r3 = 0, !.refl = 0]
    ELSE [invert |-> FALSE, r1 |-> s.r1 + 1, r2 |-> 0, r3 |-> 0, refl |-> 0]

(* The iteration after s: refl is the innermost loop and invert the outermost. *)
LoopNext(s) ==
    IF s.refl < 1 THEN [s EXCEPT !.refl = s.refl + 1]
    ELSE IF s.r3 < 3 THEN [s EXCEPT !.r3 = s.r3 + 1, !.refl = 0]
    ELSE IF s.r2 < 3 THEN [s EXCEPT !.r2 = s.r2 + 1, !.r3 = 0, !.refl = 0]
    ELSE IF s.r1 < 3 THEN [s EXCEPT !.r1 = s.r1 + 1, !.r2 = 0, !.r3 = 0, !.refl = 0]
    ELSE [invert |-> InvertValues[InvertIndex(s.invert) + 1],
          r1 |-> 0, r2 |-> 0, r3 |-> 0, refl |-> 0]

(* `new_bits not in cases`, line 212 *)
Absent(new_bits, table) == new_bits \notin DOMAIN table

(* The insertion order of BASE_CASES: what items() yields on a dict that keeps it. *)
InsertionOrder == [i \in 1..Len(BASE_CASES) |-> i]

Identity == compose(<< >>)

----------------------------------------------------------------------------
(* State of the script at the current iteration. *)
Loop == [invert |-> invert, r1 |-> r1, r2 |-> r2, r3 |-> r3, refl |-> refl]
Op == Operation(r1, r2, r3, refl)
Item == BASE_CASES[order[bi]]
CurNewBits == NewBits(Op, invert, Item[1])

Init ==
    /\ pc = "closure"
    /\ invert = LoopFirst.invert
    /\ r1 = LoopFirst.r1
    /\ r2 = LoopFirst.r2
    /\ r3 = LoopFirst.r3
    /\ refl = LoopFirst.refl
    /\ bi = 1
    /\ order = InsertionOrder
    /\ cases = [b \in {} |-> << >>]
    /\ derivation = [b \in {} |-> << >>]
    /\ output = << >>
    /\ perm1 = Identity
    /\ perm2 = Identity
    /\ applied = << >>

(* End of one pass of the body of the innermost loop: the loops move on, or *)
(* the script goes on to test1() at line 252.                                *)
Advance ==
    IF bi < Len(BASE_CASES)
    THEN /\ bi' = bi + 1
         /\ UNCHANGED <<pc, invert, r1, r2, r3, refl>>
    ELSE IF LoopLast(Loop)
    THEN /\ pc' = "test1"
         /\ UNCHANGED <<invert, r1, r2, r3, refl, bi>>
    ELSE /\ invert' = LoopNext(Loop).invert
         /\ r1' = LoopNext(Loop).r1
         /\ r2' = LoopNext(Loop).r2
         /\ r3' = LoopNext(Loop).r3
         /\ refl' = LoopNext(Loop).refl
         /\ bi' = 1
         /\ pc' = pc

(* Lines 208-214 when new_bits is not yet in cases. *)
Insert ==
    /\ pc = "closure"
    /\ Absent(CurNewBits, cases)
    /\ IF FacesRaise(Op, Item[2])
       THEN /\ pc' = "KeyError"
            /\ UNCHANGED <<invert, r1, r2, r3, refl, bi, cases, derivation>>
       ELSE /\ cases' = (CurNewBits :> faces_apply(Op, Item[2], Flip(invert, refl))) @@ cases
            /\ derivation' = (CurNewBits :> [invert |-> invert, r1 |-> r1, r2 |-> r2,
                                             r3 |-> r3, refl |-> refl, bits |-> Item[1]])
                             @@ derivation
            /\ Advance
    /\ UNCHANGED <<order, output, perm1, perm2, applied>>

(* Lines 208-212 when new_bits is already in cases. *)
Skip ==
    /\ pc = "closure"
    /\ ~Absent(CurNewBits, cases)
    /\ Advance
    /\ UNCHANGED <<order, cases, derivation, output, perm1, perm2, applied>>

(* sum(v in verts for v in EDGES[edge]) == 1, line 223 *)
OneSolidEnd(bits, edge) ==
    LET verts == {bits_to_verts(bits)[i] : i \in 1..Len(bits_to_verts(bits))}
    IN  Cardinality({k \in 1..2 : EDGES[edge][k] \in verts}) = 1

(* The pass of test1's loop for bits ends in an exception. *)
Test1Raises(bits) ==
    \/ bits \notin DOMAIN cases
    \/ \E i \in 1..Len(cases[bits]) : \E j \in 1..Len(cases[bits][i]) :
           ~OneSolidEnd(bits, cases[bits][i][j])

Min(S) == CHOOSE x \in S : \A y \in S : x <= y

(* test1(), lines 218-223 and 252 *)
Test1 ==
    /\ pc = "test1"
    /\ LET bad == {bits \in Patterns : Test1Raises(bits)}
       IN  pc' = IF bad = {} THEN "test2"
                 ELSE IF Min(bad) \notin DOMAIN cases THEN "KeyError"
                 ELSE "AssertionError"
    /\ UNCHANGED <<invert, r1, r2, r3, refl, bi, order, cases, derivation, output,
                   perm1, perm2, applied>>

(* edge_pairs of line 230, as the list it is: entry k (from 0) is side k % 3 of face k \div 3 *)
edge_pairs(faces) ==
    [k \in 1..(3 * Len(faces)) |->
        LET face == faces[((k - 1) \div 3) + 1]
            i == (k - 1) % 3
        IN  {face[i + 1], face[((i + 1) % 3) + 1]}]

(* Counter(edge_pairs)[pair] *)
edge_count(faces, pair) ==
    Cardinality({k \in 1..(3 * Len(faces)) : edge_pairs(faces)[k] = pair})

d_midpoint(edge) ==
    [k \in 1..3 |-> VERTICES[EDGES[edge][1]][k] + VERTICES[EDGES[edge][2]][k]]

length_sq(pos1, pos2) ==
    (pos1[1] - pos2[1]) ^ 2 + (pos1[2] - pos2[2]) ^ 2 + (pos1[3] - pos2[3]) ^ 2

(* l2 of line 246, for a pair of two edges *)
PairLengthSq(pair) ==
    LET edge1 == CHOOSE e \in pair : TRUE
        edge2 == CHOOSE e \in pair : e # edge1
    IN  length_sq(d_midpoint(edge1), d_midpoint(edge2))

(* The pass of the loop of line 232 for this pair ends in an exception. *)
PairRaises(faces, pair) ==
    /\ edge_count(faces, pair) # 2
    /\ \/ Cardinality(pair) # 2
       \/ PairLengthSq(pair) \notin {2, 4}

Test2Raises(bits) ==
    \/ bits \notin DOMAIN cases
    \/ \E k \in 1..(3 * Len(cases[bits])) :
           PairRaises(cases[bits], edge_pairs(cases[bits])[k])

(* The exception that ends test2 at bits: the first raising pair decides. *)
Test2Exception(bits) ==
    IF bits \notin DOMAIN cases THEN "KeyError"
    ELSE LET faces == cases[bits]
             k == Min({n \in 1..(3 * Len(faces)) : PairRaises(faces, edge_pairs(faces)[n])})
         IN  IF Cardinality(edge_pairs(faces)[k]) # 2 THEN "ValueError"
             ELSE "AssertionError"

(* test2(), lines 227-250 and 253 *)
Test2 ==
    /\ pc = "test2"
    /\ LET bad == {bits \in Patterns : Test2Raises(bits)}
       IN  pc' = IF bad = {} THEN "emit" ELSE Test2Exception(Min(bad))
    /\ UNCHANGED <<invert, r1, r2, r3, refl, bi, order, cases, derivation, output,
                   perm1, perm2, applied>>

(* Line 260 *)
Emit ==
    /\ pc = "emit"
    /\ IF \E i \in Patterns : i \notin DOMAIN cases
       THEN pc' = "KeyError" /\ UNCHANGED output
       ELSE pc' = "done" /\ output' = [i \in Patterns |-> cases[i]]
    /\ UNCHANGED <<invert, r1, r2, r3, refl, bi, order, cases, derivation,
                   perm1, perm2, applied>>

Next == Insert \/ Skip \/ Test1 \/ Test2 \/ Emit

Spec == Init /\ [][Next]_vars

----------------------------------------------------------------------------
(* The iteration order of BASE_CASES.items() is the dict's: insertion order *)
(* where dicts keep it, some other fixed order elsewhere.  SpecOrder runs   *)
(* the script under each order of Orders.                                   *)

NumShifts == 2

Shifted(s) == [i \in 1..Len(BASE_CASES) |-> ((i - 1 + s) % Len(BASE_CASES)) + 1]

Orders ==
    {Shifted(s) : s \in 0..NumShifts} \cup {Reversed(Shifted(s)) : s \in 0..NumShifts}

InitOrder ==
    /\ pc = "closure"
    /\ invert = LoopFirst.invert
    /\ r1 = LoopFirst.r1
    /\ r2 = LoopFirst.r2
    /\ r3 = LoopFirst.r3
    /\ refl = LoopFirst.refl
    /\ bi = 1
    /\ order \in Orders
    /\ cases = [b \in {} |-> << >>]
    /\ derivation = [b \in {} |-> << >>]
    /\ output = << >>
    /\ perm1 = Identity
    /\ perm2 = Identity
    /\ applied = << >>

SpecOrder == InitOrder /\ [][Next]_vars

----------------------------------------------------------------------------
(* The permutation algebra on its own: bits_apply and compose applied to   *)
(* every pair of permutations the loops of lines 196-205 produce.          *)

EnumeratedOps ==
    {Operation(a, b, c, d) : a \in 0..3, b \in 0..3, c \in 0..3, d \in 0..1}

InitAlg ==
    /\ pc = "algebra"
    /\ invert = LoopFirst.invert
    /\ r1 = LoopFirst.r1
    /\ r2 = LoopFirst.r2
    /\ r3 = LoopFirst.r3
    /\ refl = LoopFirst.refl
    /\ bi = 1
    /\ order = InsertionOrder
    /\ cases = [b \in {} |-> << >>]
    /\ derivation = [b \in {} |-> << >>]
    /\ output = << >>
    /\ perm1 \in EnumeratedOps
    /\ perm2 \in EnumeratedOps
    /\ applied = << >>

ApplyPerms ==
    /\ pc = "algebra"
    /\ pc' = "applied"
    /\ applied' =
          [stepwise |-> [p \in Patterns |-> bits_apply(perm2, bits_apply(perm1, p))],
           composed |-> [p \in Patterns |-> bits_apply(compose(<<perm1, perm2>>), p)],
           identity |-> [p \in Patterns |-> bits_apply(compose(<< >>), p)]]
    /\ UNCHANGED <<invert, r1, r2, r3, refl, bi, order, cases, derivation, output,
                   perm1, perm2>>

NextAlg == ApplyPerms

SpecAlg == InitAlg /\ [][NextAlg]_vars

----------------------------------------------------------------------------
(* Properties. *)

(* The closure loop of lines 195-214 has run to its end. *)
ClosureDone == pc \in {"test1", "test2", "emit", "done"}

(* Corner v is solid under bit-pattern p. *)
Solid(p, v) == (p \div (2 ^ v)) % 2 = 1

(* C1: once the closure loop has run over every operation and every entry  *)
(* of BASE_CASES, cases has an entry for every bit-pattern 0..255, and the  *)
(* entries of patterns 0 and 255 are empty.                                 *)
C1_TableComplete ==
    ClosureDone =>
        /\ DOMAIN cases = Patterns
        /\ cases[0] = << >>
        /\ cases[255] = << >>

C1_Witness ==
    /\ pc = "done"
    /\ Cardinality(DOMAIN cases) = 256
    /\ Len(BASE_CASES) = 19
    /\ \A i \in Patterns : output[i] = cases[i]

(* C2: in the completed table every edge of every triangle of cases[p] has *)
(* exactly one of its two end corners solid under p.                       *)
C2_EdgeSolid ==
    ClosureDone =>
        \A p \in DOMAIN cases : \A i \in 1..Len(cases[p]) : \A j \in 1..Len(cases[p][i]) :
            LET e == cases[p][i][j]
            IN  Solid(p, EDGES[e][1]) # Solid(p, EDGES[e][2])

C2_Witness ==
    /\ pc = "test2"
    /\ DOMAIN cases = Patterns
    /\ \E p \in Patterns : Len(cases[p]) = 5

(* C3: in the completed table every unordered pair of consecutive edges of *)
(* a triangle that does not occur exactly twice in its entry joins two     *)
(* edges whose doubled midpoints are at squared distance 2 or 4.           *)
C3_Manifold ==
    ClosureDone =>
        \A p \in DOMAIN cases : \A k \in 1..(3 * Len(cases[p])) :
            LET pair == edge_pairs(cases[p])[k]
            IN  edge_count(cases[p], pair) # 2 =>
                    /\ Cardinality(pair) = 2
                    /\ PairLengthSq(pair) \in {2, 4}

C3_Witness ==
    /\ pc = "emit"
    /\ \E p \in Patterns : \E k \in 1..(3 * Len(cases[p])) :
           edge_count(cases[p], edge_pairs(cases[p])[k]) = 1
    /\ \E p \in Patterns : \E k \in 1..(3 * Len(cases[p])) :
           /\ edge_count(cases[p], edge_pairs(cases[p])[k]) = 2
           /\ PairLengthSq(edge_pairs(cases[p])[k]) \notin {2, 4}

(* C4: every entry of BASE_CASES (the 15 base cases and the 4 inverse      *)
(* cases) is in the completed table verbatim at its own bit-pattern,       *)
(* inserted from itself by the identity without inversion; in particular   *)
(* cases[1] = ((8,0,3)), cases[3] = ((8,1,3),(8,9,1)) and cases[255 - 5]   *)
(* is the inverse case written for it.                                     *)
C4_HandSpecifiedVerbatim ==
    ClosureDone =>
        /\ \A i \in 1..Len(BASE_CASES) :
              LET b == BASE_CASES[i][1]
              IN  /\ b \in DOMAIN cases
                  /\ cases[b] = BASE_CASES[i][2]
                  /\ derivation[b] = [invert |-> FALSE, r1 |-> 0, r2 |-> 0, r3 |-> 0,
                                      refl |-> 0, bits |-> b]
        /\ cases[1] = << <<8, 0, 3>> >>
        /\ cases[3] = << <<8, 1, 3>>, <<8, 9, 1>> >>
        /\ cases[250] = << <<3, 2, 8>>, <<8, 2, 10>>, <<8, 10, 1>>, <<8, 1, 0>> >>

(* The inverting pass reaches 255 - 5 from base case 5 and finds it taken. *)
C4_Witness ==
    /\ pc = "closure"
    /\ invert
    /\ Item[1] = 5
    /\ CurNewBits = 250
    /\ ~Absent(CurNewBits, cases)
    /\ faces_apply(Op, Item[2], Flip(invert, refl)) # cases[250]

(* C5: bits_apply is a group action: the identity permutation leaves every *)
(* pattern unchanged, and applying perm1 then perm2 is applying            *)
(* compose(perm1, perm2), for all enumerated permutations and all patterns.*)
C5_GroupAction ==
    pc = "applied" =>
        /\ \A p \in Patterns : applied.identity[p] = p
        /\ \A p \in Patterns : applied.stepwise[p] = applied.composed[p]

(* A pair of permutations that do not commute has been applied. *)
C5_Witness ==
    /\ pc = "applied"
    /\ perm1 = ROTATE_1
    /\ perm2 = ROTATE_2
    /\ compose(<<perm1, perm2>>) # compose(<<perm2, perm1>>)
    /\ applied.stepwise[1] = 4

(* C6: for the permutation of every iteration and every edge, the images   *)
(* of the edge's two corners are the corners of an edge, so edge_apply     *)
(* returns an edge index and the script never ends in a lookup error.      *)
C6_NoMalformedEdge ==
    /\ pc # "KeyError"
    /\ \A e \in EdgeIds :
          /\ EdgeFound(Op, e)
          /\ edge_apply(Op, e) \in EdgeIds

C6_Witness ==
    /\ pc = "closure"
    /\ r1 = 3 /\ r2 = 3 /\ r3 = 3 /\ refl = 1
    /\ bi = Len(BASE_CASES)
    /\ \E e \in EdgeIds : edge_apply(Op, e) # e

(* The patterns some enumerated permutation reaches from a key of BASE_CASES. *)
NonInvertedOrbit ==
    {bits_apply(op, BASE_CASES[i][1]) : op \in EnumeratedOps, i \in 1..Len(BASE_CASES)}

(* C7: by the time an inverted operation runs, every pattern a             *)
(* non-inverted operation reaches from a key of BASE_CASES is in the       *)
(* table; the entry of such a pattern was inserted by a non-inverted       *)
(* operation, and inverted operations insert only the other patterns; the  *)
(* loops turn to inversion once, after the last pass of the last           *)
(* non-inverted operation.                                                 *)
C7_NonInvertedFirst ==
    /\ [](/\ (pc = "closure" /\ invert) => NonInvertedOrbit \subseteq DOMAIN cases
          /\ \A q \in DOMAIN cases : (q \in NonInvertedOrbit) <=> ~derivation[q].invert)
    /\ [][invert' # invert =>
            /\ ~invert
            /\ r1 = 3 /\ r2 = 3 /\ r3 = 3 /\ refl = 1
            /\ bi = Len(BASE_CASES)]_vars

C7_Witness ==
    /\ ClosureDone
    /\ Cardinality({q \in DOMAIN cases : ~derivation[q].invert}) = 207
    /\ Cardinality({q \in DOMAIN cases : derivation[q].invert}) = 49

(* The entry the winding rule gives for a derivation d: the faces of the   *)
(* source entry in order, each edge replaced by the edge between the       *)
(* images of its corners, each face reversed when exactly one of           *)
(* inversion and reflection is part of d.                                  *)
RuleEntry(d) ==
    LET op == Operation(d.r1, d.r2, d.r3, d.refl)
        src == BaseFaces(d.bits)
        E(e) == CHOOSE x \in EdgeIds : VertSet(x) = {op[EDGES[e][1]], op[EDGES[e][2]]}
        rev == (d.invert /\ d.refl = 0) \/ (~d.invert /\ d.refl = 1)
    IN  [i \in 1..Len(src) |->
            IF rev THEN <<E(src[i][3]), E(src[i][2]), E(src[i][1])>>
            ELSE <<E(src[i][1]), E(src[i][2]), E(src[i][3])>>]

(* C8: every entry of the table is its source entry under the winding flip *)
(* rule; the entry of pattern 2 is derived from pattern 1 by REFLECT alone *)
(* and is the mapped triangle (9, 0, 1) of (8, 0, 3) in reverse, (1, 0, 9).*)
C8_WindingFlipRule ==
    ClosureDone =>
        /\ \A q \in DOMAIN cases : cases[q] = RuleEntry(derivation[q])
        /\ derivation[2] = [invert |-> FALSE, r1 |-> 0, r2 |-> 0, r3 |-> 0,
                            refl |-> 1, bits |-> 1]
        /\ cases[2] = << <<1, 0, 9>> >>

(* Non-empty entries of all four kinds exist. *)
C8_Witness ==
    /\ ClosureDone
    /\ \A inv \in BOOLEAN : \A d \in 0..1 :
           \E q \in DOMAIN cases :
               /\ derivation[q].invert = inv
               /\ derivation[q].refl = d
               /\ cases[q] # << >>

(* Side a -> b is a cyclic step of the face. *)
Traverses(face, a, b) ==
    \E i \in 0..2 : face[i + 1] = a /\ face[((i + 1) % 3) + 1] = b

(* C9: in the completed table, a side shared by exactly two triangles of   *)
(* an entry is traversed by them in opposite directions.                   *)
C9_ConsistentWinding ==
    ClosureDone =>
        \A p \in DOMAIN cases : \A k \in 1..(3 * Len(cases[p])) :
            LET pair == edge_pairs(cases[p])[k]
                a == CHOOSE e \in pair : TRUE
                b == CHOOSE e \in pair : e # a
            IN  edge_count(cases[p], pair) = 2 =>
                    /\ Cardinality({i \in 1..Len(cases[p]) : Traverses(cases[p][i], a, b)}) = 1
                    /\ Cardinality({i \in 1..Len(cases[p]) : Traverses(cases[p][i], b, a)}) = 1

(* The iterations of the nested loops of lines 195-199, in order: invert  *)
(* is the outermost loop, then r1, r2, r3, and refl the innermost.         *)
Iterations ==
    [k \in 1..256 |->
        [invert |-> (k - 1) \div 128 = 1,
         r1 |-> ((k - 1) \div 32) % 4,
         r2 |-> ((k - 1) \div 8) % 4,
         r3 |-> ((k - 1) \div 2) % 4,
         refl |-> (k - 1) % 2]]

(* Targets[k][i]: the pattern iteration k maps entry i of BASE_CASES to. *)
Targets ==
    [k \in 1..Len(Iterations) |->
        LET s == Iterations[k]
            op == Operation(s.r1, s.r2, s.r3, s.refl)
        IN  [i \in 1..Len(BASE_CASES) |-> NewBits(op, s.invert, BASE_CASES[i][1])]]

(* The table as a function of the operations' order and the set of entries *)
(* of BASE_CASES alone: pattern q gets the entry derived by the first      *)
(* iteration that maps some entry of BASE_CASES to q, from that entry.     *)
OrderFreeTable ==
    [q \in Patterns |->
        LET k == Min({n \in 1..Len(Iterations) :
                         \E i \in 1..Len(BASE_CASES) : Targets[n][i] = q})
            i == CHOOSE j \in 1..Len(BASE_CASES) : Targets[k][j] = q
            s == Iterations[k]
        IN  faces_apply(Operation(s.r1, s.r2, s.r3, s.refl), BASE_CASES[i][2],
                        Flip(s.invert, s.refl))]

(* C10: within every operation the entries of BASE_CASES are mapped to     *)
(* pairwise distinct patterns, and whatever the order in which the         *)
(* innermost loop visits them, the completed table is the same one.        *)
C10_OrderIndependent ==
    /\ pc = "closure" =>
          Cardinality({NewBits(Op, invert, BASE_CASES[i][1]) : i \in 1..Len(BASE_CASES)})
              = Len(BASE_CASES)
    /\ ClosureDone => cases = OrderFreeTable

(* A run in another order than the insertion order has completed. *)
C10_Witness ==
    /\ pc = "done"
    /\ order # InsertionOrder
    /\ order[1] = Len(BASE_CASES)
    /\ cases = OrderFreeTable

====
